---- MODULE Spec2Model ----
(***************************************************************************)
(* stperf: an in-process call-tree profiler (src/stperf.h, src/stperf.cpp). *)
(*                                                                         *)
(* The model has the static state of cag::PerfTimer (the registry of       *)
(* per-thread scope stacks `_scope_stack`, the per-thread root lists       *)
(* `_parents`, the mutex `_scope_stack_guard`), the `_tp` field of every   *)
(* PerfTimer object, and a clock.  A PerfNode* held on a scope stack is     *)
(* modelled by the path of vector indices that leads to the node from the  *)
(* thread's root list.                                                     *)
(*                                                                         *)
(* Floats (_value, _pct) are modelled as exact fractions <<num, den>> in   *)
(* lowest terms, with NaN == <<0, 0>> and Inf == <<1, 0>> for the two      *)
(* results of a division by 0.0f; rounding of the 24-bit mantissa is not   *)
(* modelled.  The 64-bit wrap of _nanos sums is not modelled either: the   *)
(* sums reachable within the bounds stay far below 2^31.                    *)
(***************************************************************************)
EXTENDS Integers, Sequences, FiniteSets, TLC

\* ------------------------------------------------------------------ bounds
\* Spec: live PerfNodes over all threads (every start() allocates one).
MaxNodes == 2
\* SpecSeq: live PerfNodes, and nesting depth of the scope guards.
SeqNodes == 3
\* SpecDeep: live PerfNodes, and nesting depth of the scope guards.
DeepNodes == 4
\* Largest reading of the clock, in nanoseconds.
MaxTime == 2

\* The threads that call into the library, and the PerfTimer objects they use.
Threads == {"T1", "T2"}
MainThread == "T1"
Handles == {"h1", "h2"}

\* PerfTimer::_scope_name of each PerfTimer object (name + suffix, fixed at
\* construction).
ScopeName(h) == IF h = "h1" THEN "a" ELSE "b"

\* --------------------------------------------------------------- variables
VARIABLES
    scope_stack,   \* PerfTimer::_scope_stack : thread -> stack of node paths
    parents,       \* PerfTimer::_parents     : thread -> vector of PerfNode
    guard,         \* PerfTimer::_scope_stack_guard : holder, or NoThread
    tp,            \* PerfTimer::_tp of every PerfTimer object
    now,           \* high_resolution_clock::now()
    output,        \* value returned by the last GetCallTree(), NoOutput otherwise
    ub,            \* undefined behaviour has been executed
    callers,       \* per thread: the PerfTimers of its live ScopeGuards, innermost last
    pairs,         \* history: ScopeGuards constructed and destroyed so far
    began,         \* history, per thread: the clock at the construction of each live ScopeGuard
    pc,            \* per thread: the statement it is at (SpecConc, SpecIds)
    ops,           \* per thread: calls it has issued so far (SpecConc, SpecIds)
    raced,         \* a data race on a registry has been executed (SpecConc)
    args,          \* the free function called last and its arguments (SpecUnits)
    ret,           \* the value that call returned (SpecUnits)
    sff_id,        \* GetThreadIdSFF::sff_id : thread -> id
    inc,           \* GetThreadIdSFF::inc
    taken,         \* per thread: the value of inc it read at line 167
    got,           \* history, per thread: the ids GetThreadIdSFF has returned to it
    iter,          \* per thread: where its GetCallTree() loop is (SpecGuard)
    perf_timers,   \* the C API's perf_timers : sid -> PerfTimer (SpecCapi)
    last           \* history: the last call made

vars == <<scope_stack, parents, guard, tp, now, output, ub, callers, pairs, began, pc, ops, raced,
         args, ret, sff_id, inc, taken, got, iter, perf_timers, last>>

\* The variables that only SpecConc changes.
conc == <<pc, ops, raced, iter>>

\* The variables that only the C API changes.
capi == <<perf_timers>>

\* The static variables of GetThreadIdSFF and what its callers hold.
ids == <<sff_id, inc, taken, got>>

\* The variables that only the calls of the free functions change.
util == <<args, ret, ids>>

NoThread == "none"
NoOutput == "no_output"
NoIter == [seen |-> <<>>, done |-> 0]

\* ------------------------------------------------------------ granularity
\* enum class Granularity { S, MS, US, NS }
GranS == 0
GranMS == 1
GranUS == 2
GranNS == 3

NanosPerSecond == 1000000000
NanosPerMilli == 1000000
NanosPerMicro == 1000

\* A resolution whose boundaries fall one nanosecond late: the fault C14 would
\* detect.
FindTimeGranularity_LateBoundaries(t) ==
    IF t > NanosPerSecond THEN GranS
    ELSE IF t > NanosPerMilli THEN GranMS
    ELSE IF t > NanosPerMicro THEN GranUS
    ELSE GranNS

FindTimeGranularity(t) ==
    IF t \div NanosPerSecond > 0 THEN GranS
    ELSE IF t \div NanosPerMilli > 0 THEN GranMS
    ELSE IF t \div NanosPerMicro > 0 THEN GranUS
    ELSE GranNS

MaxOrdinal(a, b) == IF a >= b THEN a ELSE b

\* A common unit that is the smaller ordinal: the fault C13 (amended) would
\* detect.
FindCommonGranularity_MinOrdinal(g1, g2) == IF g1 <= g2 THEN g1 ELSE g2

FindCommonGranularity(g1, g2) == MaxOrdinal(g1, g2)

\* ------------------------------------------------------------------ floats
NaN == <<0, 0>>
Inf == <<1, 0>>

RECURSIVE Gcd(_, _)
Gcd(a, b) == IF b = 0 THEN a ELSE Gcd(b, a % b)

\* The float n/d (n, d >= 0).
Float(n, d) ==
    IF d = 0 THEN (IF n = 0 THEN NaN ELSE Inf)
    ELSE LET g == Gcd(n, d) IN <<n \div g, d \div g>>

\* operator/ on two non-negative floats.
FDiv(x, y) ==
    IF x = NaN \/ y = NaN THEN NaN
    ELSE IF x = Inf THEN (IF y = Inf THEN NaN ELSE Inf)
    ELSE IF y = Inf THEN Float(0, 1)
    ELSE IF x[2] = y[2] THEN Float(x[1], y[1])
    ELSE Float(x[1] * y[2], x[2] * y[1])

NanosToValue(g, t) ==
    IF g = GranNS THEN Float(t, 1)
    ELSE IF g = GranUS THEN Float(t, NanosPerMicro)
    ELSE IF g = GranMS THEN Float(t, NanosPerMilli)
    ELSE IF g = GranS THEN Float(t, NanosPerSecond)
    ELSE Float(0, 1)

\* ---------------------------------------------------------------- PerfNode
\* A value-initialised PerfNode, as vector::emplace_back() constructs it.
NewNode ==
    [granularity |-> GranS, value |-> Float(0, 1), pct |-> Float(0, 1),
     nanos |-> 0, name |-> "", indent |-> 0, children |-> <<>>, hits |-> 0]

RECURSIVE ValidPath(_, _)
ValidPath(list, path) ==
    /\ Len(path) >= 1
    /\ path[1] \in 1..Len(list)
    /\ Len(path) > 1 => ValidPath(list[path[1]].children, Tail(path))

\* *p for a PerfNode* p into the root list `list`.
RECURSIVE NodeAt(_, _)
NodeAt(list, path) ==
    IF Len(path) = 1 THEN list[path[1]]
    ELSE NodeAt(list[path[1]].children, Tail(path))

\* The root list after *p = node.
RECURSIVE ReplaceAt(_, _, _)
ReplaceAt(list, path, node) ==
    IF Len(path) = 1 THEN [list EXCEPT ![path[1]] = node]
    ELSE [list EXCEPT ![path[1]] =
              [@ EXCEPT !.children = ReplaceAt(@, Tail(path), node)]]

RECURSIVE CountNodes(_)
CountNodes(list) ==
    IF list = <<>> THEN 0
    ELSE 1 + CountNodes(Head(list).children) + CountNodes(Tail(list))

RECURSIVE SumOver(_, _)
SumOver(S, f) ==
    IF S = {} THEN 0
    ELSE LET x == CHOOSE y \in S : TRUE IN f[x] + SumOver(S \ {x}, f)

\* Live PerfNodes over all threads.
TotalNodes == SumOver(DOMAIN parents, [t \in DOMAIN parents |-> CountNodes(parents[t])])

\* ----------------------------------------------------------------- reducer
RECURSIVE SumNanos(_)
SumNanos(nodes) ==
    IF nodes = <<>> THEN 0 ELSE Head(nodes).nanos + SumNanos(Tail(nodes))

RECURSIVE ConcatChildren(_)
ConcatChildren(nodes) ==
    IF nodes = <<>> THEN <<>>
    ELSE Head(nodes).children \o ConcatChildren(Tail(nodes))

\* ReduceChildren: one node for a group of same-named nodes.
\* A reduction that counts every group as one occurrence: the fault C11 would
\* detect.
ReduceChildren_CountsOne(nodes) ==
    LET first == nodes[1]
        sum == SumNanos(nodes)
    IN  [first EXCEPT !.nanos = sum, !.hits = 1, !.children = ConcatChildren(nodes)]

\* A reduction that keeps the duration of the first node instead of the sum:
\* the fault C4 would detect.
ReduceChildren_FirstDuration(nodes) ==
    LET first == nodes[1]
    IN  [first EXCEPT !.hits = Len(nodes), !.children = ConcatChildren(nodes)]

ReduceChildren(nodes) ==
    LET first == nodes[1]
        sum == SumNanos(nodes)
        granularity == FindTimeGranularity(sum)
    IN  [name |-> first.name, indent |-> first.indent, pct |-> first.pct,
         nanos |-> sum, granularity |-> granularity,
         value |-> NanosToValue(granularity, sum),
         hits |-> Len(nodes), children |-> ConcatChildren(nodes)]

\* The keys of the unordered_map that ComputeTreeLevelMap fills, in the order
\* of their first insertion.
RECURSIVE LevelNames(_, _)
LevelNames(level, seen) ==
    IF level = <<>> THEN <<>>
    ELSE IF Head(level).name \in seen THEN LevelNames(Tail(level), seen)
    ELSE <<Head(level).name>> \o LevelNames(Tail(level), seen \cup {Head(level).name})

NodesNamed(level, nm) == SelectSeq(level, LAMBDA n : n.name = nm)

\* A level map that puts all nodes of a level under one key: the fault C23
\* would detect.
ComputeTreeLevelMap_OneKey(level) == IF level = <<>> THEN <<>> ELSE <<level>>

\* ComputeTreeLevelMap: the nodes of a level grouped by name, each group in
\* the order of the level.  The iteration order of the unordered_map is
\* unspecified; the model iterates in the order of first insertion.
ComputeTreeLevelMap(level) ==
    LET keys == LevelNames(level, {})
    IN  [i \in 1..Len(keys) |-> NodesNamed(level, keys[i])]

\* A collapse that also folds an only child into its same-named parent: the
\* fault C24 would detect.
RECURSIVE ComputeNodesCollapse_AbsorbsChild(_)
ComputeNodesCollapse_AbsorbsChild(root) ==
    IF root.children = <<>> THEN root
    ELSE LET storage == ComputeTreeLevelMap(root.children)
             kids == [i \in 1..Len(storage) |->
                         ComputeNodesCollapse_AbsorbsChild(ReduceChildren(storage[i]))]
         IN  IF Len(kids) = 1 /\ kids[1].name = root.name
             THEN [root EXCEPT !.children = kids[1].children,
                               !.hits = @ + kids[1].hits]
             ELSE [root EXCEPT !.children = kids]

RECURSIVE ComputeNodesCollapse(_)
ComputeNodesCollapse(root) ==
    IF root.children = <<>> THEN root
    ELSE LET storage == ComputeTreeLevelMap(root.children)
         IN  [root EXCEPT !.children =
                 [i \in 1..Len(storage) |->
                     ComputeNodesCollapse(ReduceChildren(storage[i]))]]

\* -------------------------------------------------------------- percentages
CalculateRootRelativePct(root, node) ==
    LET granularity == FindCommonGranularity(node.granularity, root.granularity)
    IN  FDiv(NanosToValue(granularity, node.nanos),
             NanosToValue(granularity, root.nanos))

RECURSIVE CalculateTreeRelativePct(_, _)
CalculateTreeRelativePct(root, children) ==
    [i \in 1..Len(children) |->
        [children[i] EXCEPT
            !.pct = CalculateRootRelativePct(root, children[i]),
            !.children = CalculateTreeRelativePct(root, children[i].children)]]

\* ---------------------------------------------------------------- snapshot
\* One iteration of the loop over a thread's roots (lines 284-293).
CrunchRoot(parent) ==
    LET collapsed == ComputeNodesCollapse(parent)
        root == [collapsed EXCEPT !.pct = CalculateRootRelativePct(collapsed, collapsed)]
    IN  [root EXCEPT !.children = CalculateTreeRelativePct(root, root.children)]

\* A loop body that leaves out the roots that are still unnamed, that is
\* open: the fault C3 would detect.
ThreadTree_SkipsOpen(roots) ==
    LET closed == SelectSeq(roots, LAMBDA n : n.name # "")
        crunched_data == [i \in 1..Len(closed) |-> CrunchRoot(closed[i])]
        storage == ComputeTreeLevelMap(crunched_data)
    IN  [i \in 1..Len(storage) |-> ReduceChildren(storage[i])]

\* A loop body that does not merge the same-named roots: the fault C5 would
\* detect.
ThreadTree_NoRootMerge(roots) == [i \in 1..Len(roots) |-> CrunchRoot(roots[i])]

\* The body of the loop over _parents (lines 280-305) for one thread.
ThreadTree(roots) ==
    LET crunched_data == [i \in 1..Len(roots) |-> CrunchRoot(roots[i])]
        storage == ComputeTreeLevelMap(crunched_data)
    IN  [i \in 1..Len(storage) |-> ReduceChildren(storage[i])]

GetCallTree(ps) == [t \in DOMAIN ps |-> ThreadTree(ps[t])]

\* ------------------------------------------------- recording (whole calls)
\* A delLeaf that pops nothing: the fault C22 would detect.
Pop_Nothing(stack) == stack

\* _scope_stack.emplace / _parents.emplace: no effect when the key exists.
Emplace(map, t, v) == IF t \in DOMAIN map THEN map ELSE map @@ (t :> v)

Push(stack, p) == Append(stack, p)
Top(stack) == stack[Len(stack)]
Pop(stack) == SubSeq(stack, 1, Len(stack) - 1)

\* An addLeaf that appends every new node to the root list: the fault C20
\* would detect.
LeafRoots_AlwaysRoot(roots, stack) == Append(roots, NewNode)

\* addLeaf, lines 105-115, on a thread that is in both registries: the new
\* root list of the thread.
LeafRoots(roots, stack) ==
    IF stack = <<>> THEN Append(roots, NewNode)
    ELSE LET top == NodeAt(roots, Top(stack))
         IN  ReplaceAt(roots, Top(stack),
                       [top EXCEPT !.children = Append(@, NewNode)])

\* addLeaf, lines 105-115: the new stack of the thread.
LeafStack(roots, stack) ==
    IF stack = <<>> THEN Push(stack, <<Len(roots) + 1>>)
    ELSE Push(stack, Top(stack) \o <<Len(NodeAt(roots, Top(stack)).children) + 1>>)

\* A stop() that records the stack size as the depth: the fault C21 would
\* detect.
FilledNode_DepthIsSize(node, h, size) ==
    LET ellapsed == now - tp[h]
        granularity == FindTimeGranularity(ellapsed)
    IN  [node EXCEPT !.granularity = granularity,
                     !.value = NanosToValue(granularity, ellapsed),
                     !.nanos = ellapsed,
                     !.name = ScopeName(h),
                     !.indent = size]

\* stop(), lines 77-89: the node that top_node points to after it is filled.
FilledNode(node, h, size) ==
    LET ellapsed == now - tp[h]
        granularity == FindTimeGranularity(ellapsed)
    IN  [node EXCEPT !.granularity = granularity,
                     !.value = NanosToValue(granularity, ellapsed),
                     !.nanos = ellapsed,
                     !.name = ScopeName(h),
                     !.indent = size - 1]

\* All node paths of a root list.
RECURSIVE PathsOf(_)
PathsOf(list) ==
    UNION {{<<i>>} \cup {<<i>> \o p : p \in PathsOf(list[i].children)} : i \in 1..Len(list)}

\* The state of the calling thread's stack as stop() finds it.
StackState(t) ==
    IF t \notin DOMAIN scope_stack THEN "nostack"
    ELSE IF scope_stack[t] = <<>> THEN "empty"
    ELSE "open"

\* History: what a stop() by thread t is about.  "orphan": the previous call
\* was a ResetCounters() by t that discarded t's open regions.
StopPre(t) ==
    IF last.op = "reset" /\ last.thread = t /\ last.pre = "open" THEN "orphan"
    ELSE StackState(t)

Init ==
    /\ scope_stack = <<>>
    /\ parents = <<>>
    /\ guard = NoThread
    /\ tp = [h \in Handles |-> 0]
    /\ now = 0
    /\ output = NoOutput
    /\ ub = FALSE
    /\ callers = [t \in Threads |-> <<>>]
    /\ pairs = 0
    /\ began = [t \in Threads |-> <<>>]
    /\ pc = [t \in Threads |-> "idle"]
    /\ ops = [t \in Threads |-> 0]
    /\ raced = FALSE
    /\ args = [fn |-> "none", in |-> <<>>]
    /\ ret = GranNS
    /\ sff_id = <<>>
    /\ inc = 0
    /\ taken = [t \in Threads |-> 0]
    /\ got = [t \in Threads |-> {}]
    /\ iter = [t \in Threads |-> NoIter]
    /\ perf_timers = <<>>
    /\ last = [op |-> "init", thread |-> NoThread, pre |-> "nostack"]

\* The clock advances.
Tick ==
    /\ ~ub
    /\ now < MaxTime
    /\ now' = now + 1
    /\ UNCHANGED <<scope_stack, parents, guard, tp, output, ub, callers, pairs, began, conc, capi, util, last>>

\* PerfTimer::start() on PerfTimer h, called by thread t.
start(t, h) ==
    /\ ~ub
    /\ tp' = [tp EXCEPT ![h] = now]
    /\ LET stacks == Emplace(scope_stack, t, <<>>)
           roots == Emplace(parents, t, <<>>)
       IN  /\ parents' = [roots EXCEPT ![t] = LeafRoots(roots[t], stacks[t])]
           /\ scope_stack' = [stacks EXCEPT ![t] = LeafStack(roots[t], stacks[t])]
    /\ output' = NoOutput
    /\ last' = [op |-> "start", thread |-> t, pre |-> StackState(t)]
    /\ UNCHANGED <<guard, now, ub, conc, capi, util>>

\* PerfTimer::stop() on PerfTimer h, called by thread t.
stop(t, h) ==
    /\ ~ub
    /\ output' = NoOutput
    /\ last' = [op |-> "stop", thread |-> t, pre |-> StopPre(t)]
    /\ UNCHANGED <<guard, tp, now, conc, capi, util>>
    /\ IF DOMAIN scope_stack = {} \/ t \notin DOMAIN scope_stack
       THEN UNCHANGED <<scope_stack, parents, ub>>
       ELSE IF scope_stack[t] = <<>>
       THEN \* top() and pop() on an empty std::stack: undefined behaviour.
            \* The build either touches no node or writes through a stray
            \* pointer into some live node.
            /\ ub' = TRUE
            /\ scope_stack' = scope_stack
            /\ \/ parents' = parents
               \/ \E u \in DOMAIN parents : \E p \in PathsOf(parents[u]) :
                     parents' = [parents EXCEPT ![u] =
                         ReplaceAt(@, p, FilledNode(NodeAt(@, p), h, 0))]
       ELSE LET stack == scope_stack[t]
                top_node == Top(stack)
            IN  /\ parents' = [parents EXCEPT ![t] =
                       ReplaceAt(@, top_node, FilledNode(NodeAt(@, top_node), h, Len(stack)))]
                /\ scope_stack' = [scope_stack EXCEPT ![t] = Pop(stack)]
                /\ ub' = ub

\* A reset that clears the root lists but forgets the stacks: the fault C18
\* would detect.
ResetCounters_KeepsStacks(t) ==
    /\ ~ub
    /\ guard = NoThread
    /\ parents' = <<>>
    /\ output' = NoOutput
    /\ last' = [op |-> "reset", thread |-> t, pre |-> StackState(t)]
    /\ UNCHANGED <<scope_stack, guard, tp, now, ub, callers, pairs, began, conc, capi, util>>

\* A reset that clears the stacks but forgets the root lists: the fault C2
\* would detect.
ResetCounters_KeepsRoots(t) ==
    /\ ~ub
    /\ guard = NoThread
    /\ scope_stack' = <<>>
    /\ output' = NoOutput
    /\ last' = [op |-> "reset", thread |-> t, pre |-> StackState(t)]
    /\ UNCHANGED <<parents, guard, tp, now, ub, callers, pairs, began, conc, capi, util>>

\* PerfTimer::ResetCounters(), called by thread t.
ResetCounters(t) ==
    /\ ~ub
    /\ guard = NoThread
    /\ parents' = <<>>
    /\ scope_stack' = <<>>
    /\ output' = NoOutput
    /\ last' = [op |-> "reset", thread |-> t, pre |-> StackState(t)]
    /\ UNCHANGED <<guard, tp, now, ub, callers, pairs, began, conc, capi, util>>

\* A snapshot that reduces the live trees in place: the fault C10 would
\* detect.
Snapshot_InPlace(t) ==
    /\ ~ub
    /\ guard = NoThread
    /\ output' = GetCallTree(parents)
    /\ parents' = GetCallTree(parents)
    /\ last' = [op |-> "snapshot", thread |-> t, pre |-> StackState(t)]
    /\ UNCHANGED <<scope_stack, guard, tp, now, ub, callers, pairs, began, conc, capi, util>>

\* PerfTimer::GetCallTree(), called by thread t.
Snapshot(t) ==
    /\ ~ub
    /\ guard = NoThread
    /\ output' = GetCallTree(parents)
    /\ last' = [op |-> "snapshot", thread |-> t, pre |-> StackState(t)]
    /\ UNCHANGED <<scope_stack, parents, guard, tp, now, ub, callers, pairs, began, conc, capi, util>>

\* ScopeGuard(T& t) : t(t) { t->start(); } on PerfTimer h, while fewer than
\* `nodes` nodes are live.
ScopeEnter(t, h, nodes) ==
    /\ TotalNodes < nodes
    /\ Len(callers[t]) < nodes
    /\ start(t, h)
    /\ callers' = [callers EXCEPT ![t] = Append(@, h)]
    /\ began' = [began EXCEPT ![t] = Append(@, now)]
    /\ pairs' = pairs

\* ~ScopeGuard() { t->stop(); } of the innermost live guard of thread t.
ScopeExit(t) ==
    /\ callers[t] # <<>>
    /\ stop(t, Top(callers[t]))
    /\ callers' = [callers EXCEPT ![t] = Pop(@)]
    /\ began' = [began EXCEPT ![t] = Pop(@)]
    /\ pairs' = pairs + 1

\* ---------------------------------------------------------- specifications
\* Spec: two threads call start, stop, ResetCounters and GetCallTree in any
\* order, with any PerfTimer.
Next ==
    \/ Tick
    \/ \E t \in Threads, h \in Handles :
          TotalNodes < MaxNodes /\ start(t, h) /\ UNCHANGED <<callers, pairs, began>>
    \/ \E t \in Threads, h \in Handles : stop(t, h) /\ UNCHANGED <<callers, pairs, began>>
    \/ \E t \in Threads : ResetCounters(t)
    \/ \E t \in Threads : Snapshot(t)

Spec == Init /\ [][Next]_vars

\* SpecSeq: one thread whose regions are all bracketed by scope guards (every
\* stop is issued by the PerfTimer of the innermost region the thread has
\* started and not yet stopped), with snapshots at any point.
NextSeq ==
    \/ Tick
    \/ \E h \in Handles : ScopeEnter(MainThread, h, SeqNodes)
    \/ ScopeExit(MainThread)
    \/ Snapshot(MainThread)

SpecSeq == Init /\ [][NextSeq]_vars

\* stop() called manually on PerfTimer h, whichever PerfTimer started the
\* innermost open region of thread t.
StopAny(t, h) ==
    /\ callers[t] # <<>>
    /\ stop(t, h)
    /\ callers' = [callers EXCEPT ![t] = Pop(@)]
    /\ began' = [began EXCEPT ![t] = Pop(@)]
    /\ pairs' = pairs + 1

\* SpecLifo: one thread that starts regions and stops as many as it has
\* started, each stop() through any PerfTimer.
NextLifo ==
    \/ Tick
    \/ \E h \in Handles : ScopeEnter(MainThread, h, SeqNodes)
    \/ \E h \in Handles : StopAny(MainThread, h)
    \/ Snapshot(MainThread)

SpecLifo == Init /\ [][NextLifo]_vars

\* SpecDeep: SpecSeq with room for one more node.
NextDeep ==
    \/ Tick
    \/ \E h \in Handles : ScopeEnter(MainThread, h, DeepNodes)
    \/ ScopeExit(MainThread)
    \/ Snapshot(MainThread)

SpecDeep == Init /\ [][NextDeep]_vars

\* ------------------------------------------ recording, statement by statement
\* SpecConc: every thread runs Program, one region with one nested region,
\* both bracketed by scope guards; the statements of start() and stop() of the
\* threads interleave.
Program ==
    << [op |-> "start", h |-> "h1"], [op |-> "start", h |-> "h2"],
       [op |-> "stop", h |-> "h2"], [op |-> "stop", h |-> "h1"] >>

\* The PerfTimer whose start() or stop() thread t is executing.
Timer(t) == Program[ops[t]].h

\* Another thread is inside _scope_stack.emplace (line 99) / _parents.emplace
\* (line 100): an access to that map by thread t now is a data race.
RacesOnStacks(t) == \E u \in Threads \ {t} : pc[u] = "add_stack"
RacesOnParents(t) == \E u \in Threads \ {t} : pc[u] = "add_parents"

\* What a lookup of a key can return: the truth, or, when it races with an
\* insertion that rehashes the table, also a miss.
LookupResults(present, races) == IF races THEN {present, FALSE} ELSE {present}

\* A thread enters start() (line 63) or stop() of the next call of Program.
Call(t) ==
    /\ ~ub
    /\ pc[t] = "idle"
    /\ ops[t] < Len(Program)
    /\ ops' = [ops EXCEPT ![t] = @ + 1]
    /\ LET call == Program[ops[t] + 1]
       IN  IF call.op = "start"
           THEN /\ tp' = [tp EXCEPT ![call.h] = now]
                /\ pc' = [pc EXCEPT ![t] = "add_find"]
           ELSE /\ tp' = tp
                /\ pc' = [pc EXCEPT ![t] = "stop_find"]
    /\ UNCHANGED <<scope_stack, parents, guard, now, output, ub, callers, pairs, began, util, raced, iter, capi, last>>

\* addLeaf, line 96: _scope_stack.find(), outside the guard.
AddFind(t) ==
    /\ ~ub
    /\ pc[t] = "add_find"
    /\ \E found \in LookupResults(t \in DOMAIN scope_stack, RacesOnStacks(t)) :
          pc' = [pc EXCEPT ![t] = IF found THEN "add_at" ELSE "add_lock"]
    /\ raced' = (raced \/ RacesOnStacks(t))
    /\ UNCHANGED <<scope_stack, parents, guard, tp, now, output, ub, callers, pairs, began, util, ops, iter, capi, last>>

\* addLeaf, line 98: lock_guard takes _scope_stack_guard.
AddLock(t) ==
    /\ ~ub
    /\ pc[t] = "add_lock"
    /\ guard = NoThread
    /\ guard' = t
    /\ pc' = [pc EXCEPT ![t] = "add_stack"]
    /\ UNCHANGED <<scope_stack, parents, tp, now, output, ub, callers, pairs, began, util, ops, raced, iter, capi, last>>

\* addLeaf, line 99: _scope_stack.emplace() completes.
AddStack(t) ==
    /\ ~ub
    /\ pc[t] = "add_stack"
    /\ scope_stack' = Emplace(scope_stack, t, <<>>)
    /\ pc' = [pc EXCEPT ![t] = "add_parents"]
    /\ UNCHANGED <<parents, guard, tp, now, output, ub, callers, pairs, began, util, ops, raced, iter, capi, last>>

\* addLeaf, lines 100-101: _parents.emplace() completes, the guard is released.
AddParents(t) ==
    /\ ~ub
    /\ pc[t] = "add_parents"
    /\ parents' = Emplace(parents, t, <<>>)
    /\ guard' = NoThread
    /\ pc' = [pc EXCEPT ![t] = "add_at"]
    /\ UNCHANGED <<scope_stack, tp, now, output, ub, callers, pairs, began, util, ops, raced, iter, capi, last>>

\* addLeaf, lines 102-103: _scope_stack.at() and _parents.at(), outside the
\* guard; a miss throws std::out_of_range out of start().
AddAt(t) ==
    /\ ~ub
    /\ pc[t] = "add_at"
    /\ \E s \in LookupResults(t \in DOMAIN scope_stack, RacesOnStacks(t)),
          p \in LookupResults(t \in DOMAIN parents, RacesOnParents(t)) :
          pc' = [pc EXCEPT ![t] = IF s /\ p THEN "add_leaf" ELSE "thrown"]
    /\ raced' = (raced \/ RacesOnStacks(t) \/ RacesOnParents(t))
    /\ UNCHANGED <<scope_stack, parents, guard, tp, now, output, ub, callers, pairs, began, util, ops, iter, capi, last>>

\* The references thread_stack / thread_parents that thread t took at lines
\* 75, 102, 103 dangle: the entries were destroyed by a clear() since.
Dangling(t) == t \notin DOMAIN scope_stack \/ t \notin DOMAIN parents

\* addLeaf, lines 105-115: the new node is appended and pushed, through the
\* references taken at lines 102-103; undefined when they dangle.
AddLeaf(t) ==
    /\ ~ub
    /\ pc[t] = "add_leaf"
    /\ IF Dangling(t)
       THEN ub' = TRUE /\ UNCHANGED <<parents, scope_stack, pc>>
       ELSE /\ parents' = [parents EXCEPT ![t] = LeafRoots(parents[t], scope_stack[t])]
            /\ scope_stack' = [scope_stack EXCEPT ![t] = LeafStack(parents[t], scope_stack[t])]
            /\ pc' = [pc EXCEPT ![t] = "idle"]
            /\ ub' = ub
    /\ UNCHANGED <<guard, tp, now, output, callers, pairs, began, util, ops, raced, iter, capi, last>>

\* stop(), lines 70-74: _scope_stack.empty() and _scope_stack.find(), outside
\* the guard; stop() returns when the thread is not found.
StopFind(t) ==
    /\ ~ub
    /\ pc[t] = "stop_find"
    /\ \E found \in LookupResults(t \in DOMAIN scope_stack, RacesOnStacks(t)) :
          pc' = [pc EXCEPT ![t] = IF found THEN "stop_fill" ELSE "idle"]
    /\ raced' = (raced \/ RacesOnStacks(t))
    /\ UNCHANGED <<scope_stack, parents, guard, tp, now, output, ub, callers, pairs, began, util, ops, iter, capi, last>>

\* stop(), lines 77-89: the top node is filled, through the reference taken at
\* line 75; top() on an empty stack is undefined, and so is any use of the
\* reference when it dangles.
StopFill(t) ==
    /\ ~ub
    /\ pc[t] = "stop_fill"
    /\ IF Dangling(t) \/ scope_stack[t] = <<>>
       THEN ub' = TRUE /\ UNCHANGED <<parents, pc>>
       ELSE /\ parents' = [parents EXCEPT ![t] =
                   ReplaceAt(@, Top(scope_stack[t]),
                             FilledNode(NodeAt(@, Top(scope_stack[t])), Timer(t),
                                        Len(scope_stack[t])))]
            /\ pc' = [pc EXCEPT ![t] = "del"]
            /\ ub' = ub
    /\ UNCHANGED <<scope_stack, guard, tp, now, output, callers, pairs, began, util, ops, raced, iter, capi, last>>

\* delLeaf, line 120: _scope_stack.at(), outside the guard, then pop(); a miss
\* throws std::out_of_range out of stop().
DelLeaf(t) ==
    /\ ~ub
    /\ pc[t] = "del"
    /\ \E found \in LookupResults(t \in DOMAIN scope_stack, RacesOnStacks(t)) :
          IF found
          THEN /\ scope_stack' = [scope_stack EXCEPT ![t] = Pop(@)]
               /\ pc' = [pc EXCEPT ![t] = "idle"]
          ELSE /\ scope_stack' = scope_stack
               /\ pc' = [pc EXCEPT ![t] = "thrown"]
    /\ raced' = (raced \/ RacesOnStacks(t))
    /\ UNCHANGED <<parents, guard, tp, now, output, ub, callers, pairs, began, util, ops, iter, capi, last>>

NextConc ==
    \/ Tick
    \/ \E t \in Threads : Call(t)
    \/ \E t \in Threads : AddFind(t)
    \/ \E t \in Threads : AddLock(t)
    \/ \E t \in Threads : AddStack(t)
    \/ \E t \in Threads : AddParents(t)
    \/ \E t \in Threads : AddAt(t)
    \/ \E t \in Threads : AddLeaf(t)
    \/ \E t \in Threads : StopFind(t)
    \/ \E t \in Threads : StopFill(t)
    \/ \E t \in Threads : DelLeaf(t)

SpecConc == Init /\ [][NextConc]_vars

\* SpecReset: as SpecConc, and a thread that is between two calls of its
\* Program may call ResetCounters().
NextReset ==
    \/ NextConc
    \/ \E t \in Threads : pc[t] = "idle" /\ ResetCounters(t)

SpecReset == Init /\ [][NextReset]_vars

\* ------------------------------------- all four operations, by statement
\* SpecGuard: as SpecConc without the clock, and a thread that is between two
\* calls of its Program may call ResetCounters() or GetCallTree(), which take
\* and release _scope_stack_guard statement by statement.

\* The keys of _parents and the size of every root vector: what the iterators
\* of the loops of GetCallTree (lines 278, 284) range over.
Shape(reg) == [u \in DOMAIN reg |-> Len(reg[u])]

TotalRoots(reg) == SumOver(DOMAIN reg, Shape(reg))

\* The registry was changed by another thread since thread t's GetCallTree
\* last looked: its iterators may be invalid.
Invalidated(t) == Shape(parents) # iter[t].seen

\* Every entry and every root that the loop has seen is still there.
Grown(t) ==
    \A u \in DOMAIN iter[t].seen :
        u \in DOMAIN parents /\ Len(parents[u]) >= iter[t].seen[u]

\* ResetCounters, line 182: lock_guard takes _scope_stack_guard.
ResetLock(t) ==
    /\ ~ub
    /\ pc[t] = "idle"
    /\ guard = NoThread
    /\ guard' = t
    /\ pc' = [pc EXCEPT ![t] = "reset_clear"]
    /\ UNCHANGED <<scope_stack, parents, tp, now, output, ub, callers, pairs, began, util, ops,
                   raced, iter, capi, last>>

\* ResetCounters, lines 183-185: both maps are cleared, the guard is released.
ResetClear(t) ==
    /\ ~ub
    /\ pc[t] = "reset_clear"
    /\ parents' = <<>>
    /\ scope_stack' = <<>>
    /\ guard' = NoThread
    /\ pc' = [pc EXCEPT ![t] = "idle"]
    /\ UNCHANGED <<tp, now, output, ub, callers, pairs, began, util, ops, raced, iter, capi, last>>

\* GetCallTree, lines 274-281: an empty registry returns an empty map; with
\* no root anywhere the loops take no guard; otherwise the inner loop is
\* entered at the first root.
SnapCall(t) ==
    /\ ~ub
    /\ pc[t] = "idle"
    /\ IF TotalRoots(parents) = 0
       THEN /\ output' = GetCallTree(parents)
            /\ UNCHANGED <<pc, iter>>
       ELSE /\ iter' = [iter EXCEPT ![t] = [seen |-> Shape(parents), done |-> 0]]
            /\ pc' = [pc EXCEPT ![t] = "snap_lock"]
            /\ output' = NoOutput
    /\ UNCHANGED <<scope_stack, parents, guard, tp, now, ub, callers, pairs, began, util, ops,
                   raced, capi, last>>

\* GetCallTree, line 287: lock_guard takes _scope_stack_guard for one root.
\* Advancing an iterator that an insertion or a clear() invalidated is
\* undefined; when the registry has only grown the loop may also go on.
SnapLock(t) ==
    /\ ~ub
    /\ pc[t] = "snap_lock"
    /\ guard = NoThread
    /\ \/ /\ Invalidated(t)
          /\ ub' = TRUE
          /\ UNCHANGED <<guard, pc, iter>>
       \/ /\ ~Invalidated(t) \/ Grown(t)
          /\ guard' = t
          /\ pc' = [pc EXCEPT ![t] = "snap_crunch"]
          /\ iter' = [iter EXCEPT ![t].seen = Shape(parents)]
          /\ ub' = ub
    /\ UNCHANGED <<scope_stack, parents, tp, now, output, callers, pairs, began, util, ops,
                   raced, capi, last>>

\* GetCallTree, lines 289-293: the root is crunched and the guard released at
\* the end of the loop body; after the last root, lines 295-307 build and
\* return the output.
SnapCrunch(t) ==
    /\ ~ub
    /\ pc[t] = "snap_crunch"
    /\ \/ /\ Invalidated(t)
          /\ ub' = TRUE
          /\ UNCHANGED <<guard, pc, iter, output>>
       \/ /\ ~Invalidated(t) \/ Grown(t)
          /\ guard' = NoThread
          /\ ub' = ub
          /\ IF iter[t].done + 1 >= TotalRoots(parents)
             THEN /\ pc' = [pc EXCEPT ![t] = "idle"]
                  /\ iter' = [iter EXCEPT ![t] = NoIter]
                  /\ output' = GetCallTree(parents)
             ELSE /\ pc' = [pc EXCEPT ![t] = "snap_lock"]
                  /\ iter' = [iter EXCEPT ![t] = [seen |-> Shape(parents), done |-> @.done + 1]]
                  /\ output' = output
    /\ UNCHANGED <<scope_stack, parents, tp, now, callers, pairs, began, util, ops, raced, capi,
                   last>>

NextGuard ==
    \/ \E t \in Threads : Call(t)
    \/ \E t \in Threads : AddFind(t)
    \/ \E t \in Threads : AddLock(t)
    \/ \E t \in Threads : AddStack(t)
    \/ \E t \in Threads : AddParents(t)
    \/ \E t \in Threads : AddAt(t)
    \/ \E t \in Threads : AddLeaf(t)
    \/ \E t \in Threads : StopFind(t)
    \/ \E t \in Threads : StopFill(t)
    \/ \E t \in Threads : DelLeaf(t)
    \/ \E t \in Threads : ResetLock(t)
    \/ \E t \in Threads : ResetClear(t)
    \/ \E t \in Threads : SnapCall(t)
    \/ \E t \in Threads : SnapLock(t)
    \/ \E t \in Threads : SnapCrunch(t)

SpecGuard == Init /\ [][NextGuard]_vars

\* ------------------------------------------------------------ the C API
\* SpecCapi: one thread calls stperf_StartProf with either name and
\* stperf_StopProf with the handle of its innermost open StartProf, and takes
\* snapshots.
Names == {ScopeName(h) : h \in Handles}

\* std::hash<std::string>()(name), line 331: one sid per name used here.
Hash(name) == IF name = "a" THEN 1 ELSE 2

\* MakePerfTimer(name, line, suffix), line 333.  Of the PerfTimers made for a
\* name only the one that perf_timers holds outlives its StartProf; tp[h] is
\* the _tp of that one.
MakePerfTimer(name) == CHOOSE h \in Handles : ScopeName(h) = name

\* stperf_StartProf(name, line, NULL), lines 329-337, while fewer than `nodes`
\* nodes are live.  emplace() keeps the PerfTimer already stored under sid;
\* start() runs on the new PerfTimer, whose _tp is lost with it unless emplace
\* stored it.
StartProf(t, name, nodes) ==
    /\ ~ub
    /\ TotalNodes < nodes
    /\ Len(callers[t]) < nodes
    /\ LET sid == Hash(name)
           perf_timer == MakePerfTimer(name)
           stacks == Emplace(scope_stack, t, <<>>)
           roots == Emplace(parents, t, <<>>)
       IN  /\ perf_timers' = Emplace(perf_timers, sid, perf_timer)
           /\ tp' = IF sid \in DOMAIN perf_timers THEN tp
                    ELSE [tp EXCEPT ![perf_timer] = now]
           /\ parents' = [roots EXCEPT ![t] = LeafRoots(roots[t], stacks[t])]
           /\ scope_stack' = [stacks EXCEPT ![t] = LeafStack(roots[t], stacks[t])]
           /\ callers' = [callers EXCEPT ![t] = Append(@, sid)]
    /\ began' = [began EXCEPT ![t] = Append(@, now)]
    /\ pairs' = pairs
    /\ output' = NoOutput
    /\ last' = [op |-> "start", thread |-> t, pre |-> StackState(t)]
    /\ UNCHANGED <<guard, now, ub, conc, util>>

\* stperf_StopProf(handle), lines 339-347, with the handle that the innermost
\* open StartProf of thread t returned.
StopProf(t) ==
    /\ callers[t] # <<>>
    /\ Top(callers[t]) \in DOMAIN perf_timers
    /\ stop(t, perf_timers[Top(callers[t])])
    /\ callers' = [callers EXCEPT ![t] = Pop(@)]
    /\ began' = [began EXCEPT ![t] = Pop(@)]
    /\ pairs' = pairs + 1

NextCapi ==
    \/ Tick
    \/ \E name \in Names : StartProf(MainThread, name, SeqNodes)
    \/ StopProf(MainThread)
    \/ Snapshot(MainThread)

SpecCapi == Init /\ [][NextCapi]_vars

\* ------------------------------------------------- the free functions, alone
\* SpecUnits: FindTimeGranularity and FindCommonGranularity are called on
\* every pair of units and on the nanosecond counts within Margin of 0 and of
\* the three unit boundaries.
Margin == 15

Granularities == {GranS, GranMS, GranUS, GranNS}

Boundaries == {0, NanosPerMicro, NanosPerMilli, NanosPerSecond}

TimeInputs ==
    {t \in UNION {(b - Margin)..(b + Margin) : b \in Boundaries} : t >= 0}

CallFindTimeGranularity ==
    /\ \E t \in TimeInputs :
          /\ args' = [fn |-> "FindTimeGranularity", in |-> <<t>>]
          /\ ret' = FindTimeGranularity(t)
    /\ UNCHANGED <<scope_stack, parents, guard, tp, now, output, ub, callers, pairs, began, conc, capi,
                   ids, last>>

CallFindCommonGranularity ==
    /\ \E g1 \in Granularities, g2 \in Granularities :
          /\ args' = [fn |-> "FindCommonGranularity", in |-> <<g1, g2>>]
          /\ ret' = FindCommonGranularity(g1, g2)
    /\ UNCHANGED <<scope_stack, parents, guard, tp, now, output, ub, callers, pairs, began, conc, capi,
                   ids, last>>

NextUnits ==
    \/ CallFindTimeGranularity
    \/ CallFindCommonGranularity

SpecUnits == Init /\ [][NextUnits]_vars

\* --------------------------------------------- GetThreadIdSFF, by statement
\* SpecIds: every thread calls stperf_GetCurrentThreadId() up to MaxIdCalls
\* times; the statements of GetThreadIdSFF of the threads interleave, and
\* ResetCounters() may be called in between.
MaxIdCalls == 2

\* What the steps of GetThreadIdSFF leave alone: the whole recording state.
recording == <<scope_stack, parents, guard, tp, now, output, ub, callers, pairs, began, last>>

\* stperf_GetCurrentThreadId(), line 525: GetThreadIdSFF is entered.
IdCall(t) ==
    /\ pc[t] = "idle"
    /\ ops[t] < MaxIdCalls
    /\ ops' = [ops EXCEPT ![t] = @ + 1]
    /\ pc' = [pc EXCEPT ![t] = "sff_find"]
    /\ UNCHANGED <<recording, raced, iter, capi, args, ret, ids>>

\* GetThreadIdSFF, lines 163-164: sff_id.find(id); the stored id is returned
\* when there is one.
IdFind(t) ==
    /\ pc[t] = "sff_find"
    /\ IF t \in DOMAIN sff_id
       THEN /\ got' = [got EXCEPT ![t] = @ \cup {sff_id[t]}]
            /\ pc' = [pc EXCEPT ![t] = "idle"]
       ELSE /\ got' = got
            /\ pc' = [pc EXCEPT ![t] = "sff_emplace"]
    /\ UNCHANGED <<recording, ops, raced, iter, capi, args, ret, sff_id, inc, taken>>

\* GetThreadIdSFF, line 166: sff_id.emplace(id, inc).
IdEmplace(t) ==
    /\ pc[t] = "sff_emplace"
    /\ sff_id' = Emplace(sff_id, t, inc)
    /\ pc' = [pc EXCEPT ![t] = "sff_read"]
    /\ UNCHANGED <<recording, ops, raced, iter, capi, args, ret, inc, taken, got>>

\* GetThreadIdSFF, line 167, inc++: inc is read.
IdRead(t) ==
    /\ pc[t] = "sff_read"
    /\ taken' = [taken EXCEPT ![t] = inc]
    /\ pc' = [pc EXCEPT ![t] = "sff_write"]
    /\ UNCHANGED <<recording, ops, raced, iter, capi, args, ret, sff_id, inc, got>>

\* GetThreadIdSFF, line 167, inc++: inc is written, the value read is returned.
IdWrite(t) ==
    /\ pc[t] = "sff_write"
    /\ inc' = taken[t] + 1
    /\ got' = [got EXCEPT ![t] = @ \cup {taken[t]}]
    /\ pc' = [pc EXCEPT ![t] = "idle"]
    /\ UNCHANGED <<recording, ops, raced, iter, capi, args, ret, sff_id, taken>>

NextIds ==
    \/ \E t \in Threads : IdCall(t)
    \/ \E t \in Threads : IdFind(t)
    \/ \E t \in Threads : IdEmplace(t)
    \/ \E t \in Threads : IdRead(t)
    \/ \E t \in Threads : IdWrite(t)
    \/ \E t \in Threads : pc[t] = "idle" /\ ResetCounters(t)

SpecIds == Init /\ [][NextIds]_vars

\* ------------------------------------------------------- claim vocabulary
\* The nodes of a forest, at every depth.
RECURSIVE NodesOf(_)
NodesOf(list) ==
    UNION {{list[i]} \cup NodesOf(list[i].children) : i \in 1..Len(list)}

\* The occurrence counts of a forest, added up over every depth.
RECURSIVE SumHits(_)
SumHits(list) ==
    IF list = <<>> THEN 0
    ELSE Head(list).hits + SumHits(Head(list).children) + SumHits(Tail(list))

\* The durations of a sequence of nodes, added up.
TotalNanos(nodes) == SumOver(1..Len(nodes), [j \in 1..Len(nodes) |-> nodes[j].nanos])

\* No two nodes of a level share a name, at every depth.
RECURSIVE DistinctNames(_)
DistinctNames(list) ==
    /\ \A i, j \in 1..Len(list) : i # j => list[i].name # list[j].name
    /\ \A i \in 1..Len(list) : DistinctNames(list[i].children)

\* A float that is a number between 0.0 and 1.0.
InUnitInterval(x) == x[2] > 0 /\ x[1] <= x[2]

One == Float(1, 1)

\* All nodes of a level are childless and carry the same region name.
SameNamedLeaves(level) ==
    /\ level # <<>>
    /\ \A j \in 1..Len(level) :
          /\ level[j].children = <<>>
          /\ level[j].name = level[1].name
          /\ level[j].name # ""

Stopped(t) == t \in DOMAIN scope_stack /\ scope_stack[t] = <<>>

\* ---------------------------------------------------------------------- C1
\* C1 (as claimed): a stop() by a thread that has no registered stack, or
\* whose registered stack is empty, changes no node and no stack and executes
\* no undefined access.
C1_StopWithoutOpenRegionIsNoOp ==
    [][(last'.op = "stop" /\ last'.pre \in {"nostack", "empty", "orphan"})
          => (parents' = parents /\ scope_stack' = scope_stack /\ ~ub')]_vars

\* ---------------------------------------------------------------------- C2
\* C2: when ResetCounters() is called by a thread that has a region open, the
\* stop() of that region that follows changes nothing, and GetCallTree()
\* taken right after it returns an empty forest.
C2_StopAfterResetIsNoOp ==
    [][(last.op = "reset" /\ last'.op = "stop" /\ last'.pre = "orphan")
          => /\ parents' = parents
             /\ scope_stack' = scope_stack
             /\ ~ub'
             /\ DOMAIN GetCallTree(parents') = {}]_vars

C2_Witness == last.op = "stop" /\ last.pre = "orphan" /\ ~ub

C4_SameNamedChildrenCollapse ==
    \A t \in DOMAIN parents : \A i \in 1..Len(parents[t]) :
        LET p == parents[t][i]
            out == GetCallTree(parents)[t]
        IN  (/\ p.name # ""
             /\ SameNamedLeaves(p.children)
             /\ \A k \in 1..Len(parents[t]) : k # i => parents[t][k].name # p.name)
            => /\ Cardinality({r \in 1..Len(out) : out[r].name = p.name}) = 1
               /\ \A r \in 1..Len(out) : out[r].name = p.name =>
                     /\ out[r].hits = 1
                     /\ out[r].nanos = p.nanos
                     /\ Len(out[r].children) = 1
                     /\ out[r].children[1].name = p.children[1].name
                     /\ out[r].children[1].hits = Len(p.children)
                     /\ out[r].children[1].nanos = TotalNanos(p.children)
                     /\ out[r].children[1].children = <<>>

C4_Witness ==
    \E t \in DOMAIN parents :
        /\ Len(parents[t]) = 1
        /\ parents[t][1].name = "a"
        /\ SameNamedLeaves(parents[t][1].children)
        /\ Len(parents[t][1].children) = 2
        /\ \A j \in 1..2 : parents[t][1].children[j].nanos = 1

\* ---------------------------------------------------------------------- C5
\* C5: n >= 1 stopped, childless top-level regions of one name on a thread are
\* in the snapshot a single root, of count n and of the summed duration.
C5_SameNamedRootsCollapse ==
    \A t \in DOMAIN parents :
        LET out == GetCallTree(parents)[t]
        IN  SameNamedLeaves(parents[t])
            => /\ Len(out) = 1
               /\ out[1].name = parents[t][1].name
               /\ out[1].hits = Len(parents[t])
               /\ out[1].nanos = TotalNanos(parents[t])
               /\ out[1].children = <<>>

C5_Witness ==
    \E t \in DOMAIN parents :
        /\ SameNamedLeaves(parents[t])
        /\ Len(parents[t]) = 3
        /\ TotalNanos(parents[t]) = 2

\* ---------------------------------------------------------------------- C6
\* C6 (as claimed): in every snapshot no two roots of a thread share a name and
\* no two children of a node share a name, at any depth.
C6_NoSameNamedSiblings ==
    \A t \in DOMAIN parents : DistinctNames(GetCallTree(parents)[t])

\* ---------------------------------------------------------------------- C7
\* C7 (as claimed): with every region stopped, each root of the snapshot has
\* relative_pct 1.0 and each node a relative_pct between 0.0 and 1.0.
C7_PctWithinUnitInterval ==
    \A t \in DOMAIN parents : Stopped(t) =>
        LET out == GetCallTree(parents)[t]
        IN  /\ \A r \in 1..Len(out) : out[r].pct = One
            /\ \A n \in NodesOf(out) : InUnitInterval(n.pct)

\* ---------------------------------------------------------------------- C8
\* C8 (as claimed): with every region stopped after a non-zero duration, each
\* node's relative_pct is its duration divided by the duration of the root
\* above it in the snapshot, also under a root that is the merge of several
\* top-level invocations.
C8_PctIsShareOfRoot ==
    \A t \in DOMAIN parents :
        (Stopped(t) /\ \A n \in NodesOf(parents[t]) : n.nanos > 0) =>
            LET out == GetCallTree(parents)[t]
            IN  \A r \in 1..Len(out) :
                    \A n \in NodesOf(<<out[r]>>) : n.pct = Float(n.nanos, out[r].nanos)

\* ---------------------------------------------------------------------- C9
\* A thread has run Program to its end, or has left it by an exception.
Finished(t) == pc[t] = "thrown" \/ (pc[t] = "idle" /\ ops[t] = Len(Program))

\* C9 (as claimed): when two threads have concurrently recorded one region
\* with one nested region each, under any interleaving, the snapshot has
\* exactly two thread entries, each of exactly one root with exactly one child.
C9_ThreadsRecordInIsolation ==
    (\A t \in Threads : Finished(t)) =>
        LET out == GetCallTree(parents)
        IN  /\ DOMAIN out = Threads
            /\ \A t \in Threads :
                  /\ pc[t] # "thrown"
                  /\ Len(out[t]) = 1
                  /\ Len(out[t][1].children) = 1
                  /\ out[t][1].children[1].children = <<>>

\* --------------------------------------------------------------------- C10
\* C10: GetCallTree() changes neither registry, no stack, no live node and no
\* PerfTimer, and the snapshot taken next would equal the one it returned.
C10_SnapshotLeavesRecordingUntouched ==
    [][last'.op = "snapshot"
          => /\ scope_stack' = scope_stack
             /\ parents' = parents
             /\ tp' = tp
             /\ guard' = guard
             /\ output' = GetCallTree(parents')]_vars

C10_Witness ==
    /\ last.op = "snapshot"
    /\ \E t \in DOMAIN output : \E n \in NodesOf(output[t]) : n.hits = 2

\* --------------------------------------------------------------------- C11
\* C11: after a well-nested sequence of scope guards, all of them destroyed,
\* the occurrence counts of the snapshot add up to the number of (start, stop)
\* pairs issued.
C11_CountsAddUpToPairs ==
    callers[MainThread] = <<>> =>
        IF MainThread \in DOMAIN parents
        THEN SumHits(GetCallTree(parents)[MainThread]) = pairs
        ELSE pairs = 0

C11_Witness ==
    /\ callers[MainThread] = <<>>
    /\ pairs = 3
    /\ \E n \in NodesOf(GetCallTree(parents)[MainThread]) : n.hits >= 2

\* --------------------------------------------------------------------- C12
\* C12 (as claimed): reducing a reduced tree gives the same tree: same names,
\* durations, children and occurrence counts.
C12_ReductionIsIdempotent ==
    \A t \in DOMAIN parents : \A i \in 1..Len(parents[t]) :
        LET reduced == ComputeNodesCollapse(parents[t][i])
        IN  ComputeNodesCollapse(reduced) = reduced

\* --------------------------------------------------------------------- C13
\* The nanoseconds in one unit: the coarser unit has more.
UnitNanos(g) ==
    IF g = GranS THEN NanosPerSecond
    ELSE IF g = GranMS THEN NanosPerMilli
    ELSE IF g = GranUS THEN NanosPerMicro
    ELSE 1

\* C13 (as claimed): FindCommonGranularity returns the coarser of its two
\* units, is commutative, and returns u for (u, u).
C13_CommonUnitIsCoarser ==
    args.fn = "FindCommonGranularity" =>
        LET g1 == args.in[1]
            g2 == args.in[2]
        IN  /\ ret \in {g1, g2}
            /\ UnitNanos(ret) >= UnitNanos(g1)
            /\ UnitNanos(ret) >= UnitNanos(g2)
            /\ FindCommonGranularity(g2, g1) = ret
            /\ g1 = g2 => ret = g1

\* C13 (amended): FindCommonGranularity returns the finer of its two units
\* (the one of the greater ordinal in S, MS, US, NS), is commutative, and
\* returns u for (u, u).
C13_CommonUnitIsFiner ==
    args.fn = "FindCommonGranularity" =>
        LET g1 == args.in[1]
            g2 == args.in[2]
        IN  /\ ret \in {g1, g2}
            /\ UnitNanos(ret) <= UnitNanos(g1)
            /\ UnitNanos(ret) <= UnitNanos(g2)
            /\ FindCommonGranularity(g2, g1) = ret
            /\ g1 = g2 => ret = g1

C13_Witness ==
    /\ args = [fn |-> "FindCommonGranularity", in |-> <<GranS, GranNS>>]
    /\ ret = GranNS

\* --------------------------------------------------------------------- C14
\* C14: FindTimeGranularity returns seconds from 1,000,000,000 ns on, else
\* milliseconds from 1,000,000 ns on, else microseconds from 1,000 ns on, else
\* nanoseconds: the coarsest unit of which t holds at least one.
C14_ResolvePicksCoarsestUnit ==
    args.fn = "FindTimeGranularity" =>
        LET t == args.in[1]
        IN  /\ ret = IF t >= 1000000000 THEN GranS
                     ELSE IF t >= 1000000 THEN GranMS
                     ELSE IF t >= 1000 THEN GranUS
                     ELSE GranNS
            /\ ret \in Granularities
            /\ ret # GranNS => UnitNanos(ret) <= t
            /\ \A g \in Granularities : UnitNanos(g) <= t => UnitNanos(g) <= UnitNanos(ret)

C14_Witness ==
    /\ args = [fn |-> "FindTimeGranularity", in |-> <<999999999>>]
    /\ ret = GranMS

\* --------------------------------------------------------------------- C15
\* C15 (as claimed): no thread looks up _scope_stack or _parents while another
\* thread is inside the insertion of its entry into that map.
C15_LookupsSerializedWithInsertions == ~raced

\* --------------------------------------------------------------------- C16
\* C16 (as claimed): when ResetCounters() races with start() and stop() of
\* other threads, no thread goes on to use a stack or a node that the reset
\* destroyed, no call ends in an exception, and nothing undefined is executed.
C16_ResetRaceTolerated ==
    /\ ~ub
    /\ \A t \in Threads :
          /\ pc[t] # "thrown"
          /\ pc[t] \in {"add_leaf", "stop_fill"} => ~Dangling(t)

\* --------------------------------------------------------------------- C17
\* C17 (as claimed): in a well-nested sequence, the stop() that closes a region
\* records on its node the time elapsed since the start() that created the
\* node, also when the PerfTimer was started again in between.
C17_DurationIsStartToStop ==
    [][pairs' = pairs + 1
          => LET node == NodeAt(parents'[MainThread], Top(scope_stack[MainThread]))
             IN  node.nanos = now - Top(began[MainThread])]_vars

\* --------------------------------------------------------------------- C18
\* C18: right after ResetCounters() both registries are empty for all threads,
\* as they were before anything was recorded, and GetCallTree() returns the
\* empty mapping; the first start() after it records one fresh root and
\* nothing else.
C18_ResetDiscardsEverything ==
    [][/\ last'.op = "reset"
          => /\ parents' = <<>>
             /\ scope_stack' = <<>>
             /\ DOMAIN GetCallTree(parents') = {}
       /\ (last.op = "reset" /\ last'.op = "start")
          => /\ parents' = (last'.thread :> <<NewNode>>)
             /\ scope_stack' = (last'.thread :> << <<1>> >>)
             /\ DOMAIN GetCallTree(parents') = {last'.thread}]_vars

C18_Witness ==
    /\ last.op = "reset"
    /\ last.pre = "open"
    /\ parents = <<>>
    /\ scope_stack = <<>>

\* --------------------------------------------------------------------- C19
\* C19 (as claimed): a thread is always given the same id, two threads are
\* never given the same id, and the ids given are 0, 1, ... in the order of
\* first sight, also when the threads ask concurrently and across
\* ResetCounters().
C19_ThreadIdsStableAndDistinct ==
    LET seen == {t \in Threads : got[t] # {}}
    IN  /\ \A t \in seen : Cardinality(got[t]) = 1
        /\ \A t, u \in seen : t # u => got[t] \cap got[u] = {}
        /\ UNION {got[t] : t \in seen} \subseteq 0..(Cardinality(DOMAIN sff_id) - 1)

\* --------------------------------------------------------------------- C20
\* Path p is a proper or improper prefix of path q.
IsPrefix(p, q) == Len(p) <= Len(q) /\ SubSeq(q, 1, Len(p)) = p

\* C20: start() by thread t adds one node and pushes one stack entry: the node
\* is a new last root of t when the stack of t is empty (or t is not
\* registered), else a new last child of the node on top of the stack; every
\* node that existed keeps its name, duration and children (the top node its
\* children in front of the new one), and no other thread's state changes.
C20_StartAddsOneNode ==
    [][(last'.op = "start" /\ <<scope_stack, parents, last>>' # <<scope_stack, parents, last>>) =>
          LET t == last'.thread
              stack == IF t \in DOMAIN scope_stack THEN scope_stack[t] ELSE <<>>
              roots == IF t \in DOMAIN parents THEN parents[t] ELSE <<>>
              top == IF stack = <<>> THEN <<>> ELSE Top(stack)
              kids == IF stack = <<>> THEN roots ELSE NodeAt(roots, top).children
              kids2 == IF stack = <<>> THEN parents'[t]
                       ELSE NodeAt(parents'[t], top).children
          IN  /\ DOMAIN parents' = DOMAIN parents \cup {t}
              /\ DOMAIN scope_stack' = DOMAIN scope_stack \cup {t}
              /\ \A u \in DOMAIN parents \ {t} : parents'[u] = parents[u]
              /\ \A u \in DOMAIN scope_stack \ {t} : scope_stack'[u] = scope_stack[u]
              /\ scope_stack'[t] = Append(stack, top \o <<Len(kids) + 1>>)
              /\ CountNodes(parents'[t]) = CountNodes(roots) + 1
              /\ kids2 = Append(kids, NewNode)
              /\ \A p \in PathsOf(roots) :
                    LET old == NodeAt(roots, p)
                        new == NodeAt(parents'[t], p)
                    IN  /\ new.name = old.name
                        /\ new.nanos = old.nanos
                        /\ new.hits = old.hits
                        /\ ~IsPrefix(p, top) => new = old
                        /\ Len(new.children) >= Len(old.children)]_vars

C20_Witness ==
    /\ last.op = "start"
    /\ last.pre = "open"
    /\ ~ub
    /\ \E t \in DOMAIN parents :
          /\ Len(scope_stack[t]) = 2
          /\ Len(parents[t]) = 1
          /\ Len(parents[t][1].children) = 1

\* --------------------------------------------------------------------- C21
\* Every node of the forest `list` that has been stopped carries the depth it
\* is at, `list` being at depth d.
RECURSIVE DepthsFrom(_, _)
DepthsFrom(list, d) ==
    \A i \in 1..Len(list) :
        /\ list[i].name # "" => list[i].indent = d
        /\ DepthsFrom(list[i].children, d + 1)

\* C21: in a well-nested sequence every stopped node carries the number of its
\* open ancestors at its stop, which is its depth in the tree; with every
\* region stopped, each root of the snapshot has depth 0 and each child its
\* parent's depth plus 1, merged nodes included.
C21_DepthIsNestingLevel ==
    /\ \A t \in DOMAIN parents : DepthsFrom(parents[t], 0)
    /\ callers[MainThread] = <<>> =>
          \A t \in DOMAIN parents :
              LET out == GetCallTree(parents)[t]
              IN  /\ \A r \in 1..Len(out) : out[r].indent = 0
                  /\ \A n \in NodesOf(out) :
                        \A c \in 1..Len(n.children) : n.children[c].indent = n.indent + 1

C21_Witness ==
    /\ callers[MainThread] = <<>>
    /\ \E t \in DOMAIN parents :
          \E r \in 1..Len(GetCallTree(parents)[t]) :
              /\ GetCallTree(parents)[t][r].hits = 2
              /\ GetCallTree(parents)[t][r].children # <<>>

\* --------------------------------------------------------------------- C22
\* C22: stop() through PerfTimer h, by a thread that has started more regions
\* than it has stopped, fills the node on top of the thread's stack, whichever
\* PerfTimer started it, with the name of h and the time since the last
\* start() of h, leaves every other node alone, and pops exactly that entry;
\* when as many regions are stopped as were started the stack is empty.
C22_StopClosesTopOfStack ==
    [][\A h \in Handles : (pairs' = pairs + 1 /\ StopAny(MainThread, h)) =>
          LET t == MainThread
              stack == scope_stack[t]
              top == stack[Len(stack)]
              old == NodeAt(parents[t], top)
              new == NodeAt(parents'[t], top)
          IN  /\ ~ub'
              /\ new.name = ScopeName(h)
              /\ new.nanos = now - tp[h]
              /\ new.children = old.children
              /\ new.hits = old.hits
              /\ \A p \in PathsOf(parents[t]) :
                    ~IsPrefix(p, top) => NodeAt(parents'[t], p) = NodeAt(parents[t], p)
              /\ PathsOf(parents'[t]) = PathsOf(parents[t])
              /\ scope_stack'[t] = SubSeq(stack, 1, Len(stack) - 1)
              /\ callers'[t] = <<>> => scope_stack'[t] = <<>>]_vars

C22_Witness ==
    /\ callers[MainThread] = <<"h1">>
    /\ pairs = 1
    /\ MainThread \in DOMAIN parents
    /\ Len(parents[MainThread]) = 1
    /\ Len(parents[MainThread][1].children) = 1
    /\ parents[MainThread][1].children[1].name = "a"
    /\ parents[MainThread][1].children[1].nanos = 1
    /\ tp["h2"] = now

\* --------------------------------------------------------------------- C23
\* C23: after top-level invocations on one thread, all stopped, the snapshot
\* of the thread has one root per distinct region name, counting the
\* invocations of that name, and a root none of whose invocations had nested
\* regions has no children.
C23_DifferentNamesNotMerged ==
    callers[MainThread] = <<>> =>
        \A t \in DOMAIN parents :
            LET roots == parents[t]
                out == GetCallTree(parents)[t]
                Named(nm) == {i \in 1..Len(roots) : roots[i].name = nm}
            IN  /\ Len(out) = Cardinality({roots[i].name : i \in 1..Len(roots)})
                /\ \A i \in 1..Len(roots) : \E r \in 1..Len(out) : out[r].name = roots[i].name
                /\ \A r \in 1..Len(out) :
                      /\ out[r].hits = Cardinality(Named(out[r].name))
                      /\ (\A i \in Named(out[r].name) : roots[i].children = <<>>)
                            => out[r].children = <<>>

C23_Witness ==
    /\ callers[MainThread] = <<>>
    /\ MainThread \in DOMAIN parents
    /\ Len(parents[MainThread]) = 3
    /\ {parents[MainThread][i].name : i \in 1..3} = {"a", "b"}
    /\ Len(GetCallTree(parents)[MainThread]) = 2

\* --------------------------------------------------------------------- C24
\* The number of levels of a forest.
RECURSIVE Height(_)
Height(list) ==
    IF list = <<>> THEN 0
    ELSE LET h1 == 1 + Height(Head(list).children)
             h2 == Height(Tail(list))
         IN  IF h1 > h2 THEN h1 ELSE h2

\* A forest that is one root with one child with one child, and so on.
RECURSIVE IsChain(_)
IsChain(list) == Len(list) <= 1 /\ (Len(list) = 1 => IsChain(list[1].children))

RECURSIVE SameNameBelow(_, _)
SameNameBelow(list, nm) ==
    \A i \in 1..Len(list) : list[i].name = nm /\ SameNameBelow(list[i].children, nm)

\* C24: with every region stopped, a region that re-entered itself to depth d
\* is in the snapshot a chain of d + 1 nodes of that name, each with count 1
\* and each but the innermost with one child; in general the snapshot has as
\* many levels as the recorded tree, so no node was merged with its parent or
\* a descendant.
C24_MergeOnlySiblings ==
    callers[MainThread] = <<>> =>
        \A t \in DOMAIN parents :
            LET live == parents[t]
                out == GetCallTree(parents)[t]
            IN  /\ Height(out) = Height(live)
                /\ (IsChain(live) /\ live # <<>> /\ SameNameBelow(live, live[1].name)) =>
                      /\ IsChain(out)
                      /\ CountNodes(out) = CountNodes(live)
                      /\ SameNameBelow(out, live[1].name)
                      /\ \A n \in NodesOf(out) : n.hits = 1

C24_Witness ==
    /\ callers[MainThread] = <<>>
    /\ MainThread \in DOMAIN parents
    /\ IsChain(parents[MainThread])
    /\ CountNodes(parents[MainThread]) = 3
    /\ SameNameBelow(parents[MainThread], "a")
    /\ CountNodes(GetCallTree(parents)[MainThread]) = 3

\* --------------------------------------------------------------------- C25
\* The statements at which a thread holds _scope_stack_guard.
GuardHeldAt == {"add_stack", "add_parents", "reset_clear", "snap_crunch"}

\* A thread holds the guard exactly while it is at one of those statements:
\* never inside stop(), never while it waits for the guard, never after its
\* call has returned or thrown.
GuardDiscipline == \A t \in Threads : guard = t <=> pc[t] \in GuardHeldAt

\* C25 (as claimed): stop() never takes the guard, no operation takes it while
\* holding it, every operation has released it when it returns, and a start()
\* takes it only when the calling thread is not in the registry.
C25_GuardTakenOnlyToRegister ==
    [][/\ GuardDiscipline'
       /\ \A t \in Threads :
             (pc[t] = "add_lock" /\ pc'[t] = "add_stack") => t \notin DOMAIN scope_stack]_vars

\* --------------------------------------------------------------------- C26
\* C26 (as claimed): through the C API, the StopProf that closes a region
\* records on its node the time elapsed since the StartProf that returned the
\* handle, under the name passed to that StartProf, also when the name was
\* started before.
C26_PairRecordsItsOwnInterval ==
    [][pairs' = pairs + 1
          => LET t == MainThread
                 node == NodeAt(parents'[t], Top(scope_stack[t]))
             IN  /\ node.nanos = now - Top(began[t])
                 /\ \E name \in Names : Hash(name) = Top(callers[t]) /\ node.name = name]_vars

\* --------------------------------------------------------------------- C27
\* The stack is a chain into the tree: its bottom entry is the last root and
\* each higher entry is the last child of the entry below it.
ChainInto(roots, stack) ==
    \A i \in 1..Len(stack) :
        /\ ValidPath(roots, stack[i])
        /\ i = 1 => stack[i] = <<Len(roots)>>
        /\ i > 1 => stack[i] = stack[i - 1] \o <<Len(NodeAt(roots, stack[i - 1]).children)>>

\* C27 (as claimed): after any start, stop and reset calls, nothing undefined
\* has been executed, the two registries have the same threads, and every
\* thread's stack is a chain into its live tree.
C27_StackIsChainIntoTree ==
    /\ ~ub
    /\ DOMAIN scope_stack = DOMAIN parents
    /\ \A t \in DOMAIN scope_stack : ChainInto(parents[t], scope_stack[t])

\* The part of C27 that holds: as long as nothing undefined was executed.
C27_ChainWhileDefined == ub \/ C27_StackIsChainIntoTree

====
